---- MODULE Spec2Model ----
(***************************************************************************)
(* A parser-combinator library: an immutable text read through index       *)
(* cursors, five primitive recognizers, the combinators Sequence,          *)
(* Alternative, Apply and Many, and the constructions derived from them.   *)
(*                                                                         *)
(* recognize is modelled as the call stack it is in the program: one frame *)
(* per active recognize call, holding that call's local variables, and one *)
(* step per loop iteration and per return of a child call.  Exceptions are *)
(* outcomes that travel down the stack until a frame catches them.         *)
(***************************************************************************)
EXTENDS Integers, Sequences, FiniteSets, TLC

VARIABLES
    text,     \* StringText._s, a sequence of one-character strings
    parser,   \* the recognizer handed to the outermost recognize call
    cursor,   \* the cursor handed to the outermost recognize call
    stack,    \* the active recognize calls, outermost first
    ret,      \* what the call that just ended returned or raised
    trace,    \* every finished recognize call, in the order they ended
    reads     \* every read_at_cursor call, in order

vars == <<text, parser, cursor, stack, ret, trace, reads>>

(***************************************************************************)
(* Bounds of the explored inputs.                                          *)
(***************************************************************************)
MaxLen == 3
MaxKids == 2

(***************************************************************************)
(* Python values: None, str (a sequence of characters) and list.           *)
(***************************************************************************)
None == <<"None">>
Str(s) == <<"str", s>>
List(l) == <<"list", l>>

IsStr(v) == v[1] = "str"
IsList(v) == v[1] = "list"

IndexCursor(idx) == <<"IndexCursor", idx>>
IsIndexCursor(c) == c[1] = "IndexCursor"
get_index(c) == c[2]

(***************************************************************************)
(* The outcome of a call: a returned (value, cursor) pair or a raised      *)
(* exception, named by its class.                                          *)
(***************************************************************************)
Ok(v, c) == [kind |-> "ok", val |-> v, cur |-> c]
Raise(k) == [kind |-> k, val |-> None, cur |-> None]
NoRet == Raise("none")

ParseError == {"NoMatch", "EndOfText"}

(***************************************************************************)
(* Characters: code points give the order Range compares by, and the       *)
(* classes str.isdigit and str.isalpha test.                               *)
(***************************************************************************)
Ord(ch) ==
    CASE ch = "1" -> 49
      [] ch = "A" -> 65
      [] ch = "Z" -> 90
      [] ch = "a" -> 97
      [] ch = "b" -> 98
      [] ch = "z" -> 122

isdigit(ch) == Ord(ch) \in 48..57
isalpha(ch) == Ord(ch) \in (65..90) \cup (97..122)

pred_holds(pred, ch) ==
    CASE pred = "isdigit" -> isdigit(ch)
      [] pred = "isalpha" -> isalpha(ch)

(***************************************************************************)
(* StringText                                                              *)
(***************************************************************************)
get_start_cursor == IndexCursor(0)

read_at_cursor(s, c) ==
    IF ~IsIndexCursor(c) THEN Raise("AssertionError")
    ELSE LET idx == get_index(c) IN
         IF idx >= Len(s) THEN Raise("EndOfText")
         ELSE Ok(Str(<<s[idx + 1]>>), IndexCursor(idx + 1))

(***************************************************************************)
(* Recognizers, as the objects their constructors build.                   *)
(***************************************************************************)
Char(ch) == <<"Char", ch>>
Predicate(pred) == <<"Predicate", pred>>
Range(min_ch, max_ch) == <<"Range", <<min_ch, max_ch>> >>
EndParser == <<"EndParser", <<>> >>
LambdaParser == <<"LambdaParser", <<>> >>
Sequence(parsers) == <<"Sequence", parsers>>
Alternative(parsers) == <<"Alternative", parsers>>
Apply(p, fn) == <<"Apply", <<p, fn>> >>
Many(p) == <<"Many", p>>

Class(p) == p[1]

String(s) == Apply(Sequence([k \in 1..Len(s) |-> Char(s[k])]), "join")
Optional(p) == Alternative(<<p, LambdaParser>>)
Many1(p) == Apply(Sequence(<<p, Many(p)>>), "cons")
SepBy1(p, sep) == Apply(Sequence(<<p, Many(Sequence(<<sep, p>>))>>), "fix_list")
OneOf(chars) == Alternative([k \in 1..Len(chars) |-> Char(chars[k])])
Join(p) == Apply(p, "join")
Digit == Predicate("isdigit")
Digits == Join(Many1(Digit))
Letter == Alternative(<<Range("a", "z"), Range("A", "Z")>>)
Letters == Join(Many1(Letter))

(***************************************************************************)
(* The functions Apply is given.                                           *)
(***************************************************************************)
RECURSIVE _flatten(_)
_flatten(lst) ==
    IF lst = <<>> THEN <<>>
    ELSE Head(lst)[2] \o _flatten(Tail(lst))

RECURSIVE join(_)
join(lst) ==
    IF lst = <<>> THEN <<>>
    ELSE Head(lst)[2] \o join(Tail(lst))

\* ''.join takes any iterable of str: a list of str, or a str, whose
\* elements are its characters
apply_fn(fn, v) ==
    CASE fn = "join" ->
           IF IsStr(v) THEN Ok(Str(v[2]), None)
           ELSE IF IsList(v) /\ \A k \in 1..Len(v[2]) : IsStr(v[2][k])
           THEN Ok(Str(join(v[2])), None)
           ELSE Raise("TypeError")
      [] fn = "cons" -> Ok(List(<<v[2][1]>> \o v[2][2][2]), None)
      [] fn = "fix_list" -> Ok(List(<<v[2][1]>> \o _flatten(v[2][2][2])), None)

(***************************************************************************)
(* recognize of the five primitives                                        *)
(***************************************************************************)
Char_recognize(ch, s, c) ==
    LET r == read_at_cursor(s, c) IN
    IF r.kind # "ok" THEN r
    ELSE IF r.val # Str(<<ch>>) THEN Raise("NoMatch") ELSE r

Predicate_recognize(pred, s, c) ==
    LET r == read_at_cursor(s, c) IN
    IF r.kind # "ok" THEN r
    ELSE IF ~pred_holds(pred, r.val[2][1]) THEN Raise("NoMatch") ELSE r

Range_recognize(min_ch, max_ch, s, c) ==
    LET r == read_at_cursor(s, c) IN
    IF r.kind # "ok" THEN r
    ELSE IF ~(Ord(min_ch) <= Ord(r.val[2][1]) /\ Ord(r.val[2][1]) <= Ord(max_ch))
         THEN Raise("NoMatch") ELSE r

EndParser_recognize(s, c) ==
    LET r == read_at_cursor(s, c) IN
    IF r.kind = "EndOfText" THEN Ok(Str(<<>>), None)
    ELSE IF r.kind = "ok" THEN Raise("NoMatch") ELSE r

LambdaParser_recognize(s, c) == Ok(None, c)

(***************************************************************************)
(* The call stack                                                          *)
(***************************************************************************)
Frame(p, c) == [p |-> p, cursor |-> c, i |-> 0, results |-> <<>>, cur |-> c]

Top == stack[Len(stack)]
Running == stack # <<>>
Done == stack = <<>> /\ ret.kind # "none"

SetTop(f) == [stack EXCEPT ![Len(stack)] = f]

\* the top call starts a child call
Call(p, c) ==
    /\ stack' = Append(stack, Frame(p, c))
    /\ ret' = NoRet
    /\ UNCHANGED trace

\* the top call ends with outcome out
Return(out) ==
    /\ stack' = SubSeq(stack, 1, Len(stack) - 1)
    /\ ret' = out
    /\ trace' = Append(trace, [depth |-> Len(stack) - 1, p |-> Top.p,
                               cursor |-> Top.cursor, out |-> out])

\* the read takes the element out of the text, as a read from a stream does
ReadAndReturn_consuming(out) ==
    /\ reads' = Append(reads, [cursor |-> Top.cursor,
                               out |-> read_at_cursor(text, Top.cursor)])
    /\ text' = IF read_at_cursor(text, Top.cursor).kind = "ok"
               THEN LET idx == get_index(Top.cursor) IN
                    SubSeq(text, 1, idx) \o SubSeq(text, idx + 2, Len(text))
               ELSE text
    /\ Return(out)

\* the top call reads the text once and ends; the read assigns nothing, the
\* text object and the cursor it was given are as they were
ReadAndReturn(out) ==
    /\ reads' = Append(reads, [cursor |-> Top.cursor,
                               out |-> read_at_cursor(text, Top.cursor)])
    /\ text' = text
    /\ Return(out)

Recognize ==
    /\ stack = <<>>
    /\ ret.kind = "none"
    /\ stack' = <<Frame(parser, cursor)>>
    /\ UNCHANGED <<text, parser, cursor, ret, trace, reads>>

CharStep ==
    /\ Running /\ ret.kind = "none" /\ Class(Top.p) = "Char"
    /\ ReadAndReturn(Char_recognize(Top.p[2], text, Top.cursor))
    /\ UNCHANGED <<parser, cursor>>

PredicateStep ==
    /\ Running /\ ret.kind = "none" /\ Class(Top.p) = "Predicate"
    /\ ReadAndReturn(Predicate_recognize(Top.p[2], text, Top.cursor))
    /\ UNCHANGED <<parser, cursor>>

RangeStep ==
    /\ Running /\ ret.kind = "none" /\ Class(Top.p) = "Range"
    /\ ReadAndReturn(Range_recognize(Top.p[2][1], Top.p[2][2], text, Top.cursor))
    /\ UNCHANGED <<parser, cursor>>

EndParserStep ==
    /\ Running /\ ret.kind = "none" /\ Class(Top.p) = "EndParser"
    /\ ReadAndReturn(EndParser_recognize(text, Top.cursor))
    /\ UNCHANGED <<parser, cursor>>

LambdaParserStep ==
    /\ Running /\ ret.kind = "none" /\ Class(Top.p) = "LambdaParser"
    /\ Return(LambdaParser_recognize(text, Top.cursor))
    /\ UNCHANGED <<text, parser, cursor, reads>>

(***************************************************************************)
(* Sequence.recognize: the head of the for loop, and the return of a child *)
(***************************************************************************)
\* every child is started at the cursor of the call, not at the previous
\* child's cursor
SequenceIter_noThreading ==
    /\ Running /\ ret.kind = "none" /\ Class(Top.p) = "Sequence"
    /\ IF Top.i < Len(Top.p[2])
       THEN Call(Top.p[2][Top.i + 1], Top.cursor)
       ELSE Return(Ok(List(Top.results), Top.cur))
    /\ UNCHANGED <<text, parser, cursor, reads>>

SequenceIter ==
    /\ Running /\ ret.kind = "none" /\ Class(Top.p) = "Sequence"
    /\ IF Top.i < Len(Top.p[2])
       THEN Call(Top.p[2][Top.i + 1], Top.cur)
       ELSE Return(Ok(List(Top.results), Top.cur))
    /\ UNCHANGED <<text, parser, cursor, reads>>

\* a failing child is reported as NoMatch whatever it raised
SequenceResume_asNoMatch ==
    /\ Running /\ ret.kind # "none" /\ Class(Top.p) = "Sequence"
    /\ IF ret.kind = "ok"
       THEN /\ stack' = SetTop([Top EXCEPT !.results = Append(@, ret.val),
                                           !.cur = ret.cur,
                                           !.i = @ + 1])
            /\ ret' = NoRet
            /\ UNCHANGED trace
       ELSE Return(Raise("NoMatch"))
    /\ UNCHANGED <<text, parser, cursor, reads>>

SequenceResume ==
    /\ Running /\ ret.kind # "none" /\ Class(Top.p) = "Sequence"
    /\ IF ret.kind = "ok"
       THEN /\ stack' = SetTop([Top EXCEPT !.results = Append(@, ret.val),
                                           !.cur = ret.cur,
                                           !.i = @ + 1])
            /\ ret' = NoRet
            /\ UNCHANGED trace
       ELSE Return(ret)
    /\ UNCHANGED <<text, parser, cursor, reads>>

(***************************************************************************)
(* Alternative.recognize                                                   *)
(***************************************************************************)
\* the children are tried last to first
AlternativeIter_reversed ==
    /\ Running /\ ret.kind = "none" /\ Class(Top.p) = "Alternative"
    /\ IF Top.i < Len(Top.p[2])
       THEN Call(Top.p[2][Len(Top.p[2]) - Top.i], Top.cursor)
       ELSE Return(Raise("NoMatch"))
    /\ UNCHANGED <<text, parser, cursor, reads>>

AlternativeIter ==
    /\ Running /\ ret.kind = "none" /\ Class(Top.p) = "Alternative"
    /\ IF Top.i < Len(Top.p[2])
       THEN Call(Top.p[2][Top.i + 1], Top.cursor)
       ELSE Return(Raise("NoMatch"))
    /\ UNCHANGED <<text, parser, cursor, reads>>

\* the except clause for EndOfText is missing
AlternativeResume_noEndOfText ==
    /\ Running /\ ret.kind # "none" /\ Class(Top.p) = "Alternative"
    /\ IF ret.kind = "NoMatch"
       THEN /\ stack' = SetTop([Top EXCEPT !.i = @ + 1])
            /\ ret' = NoRet
            /\ UNCHANGED trace
       ELSE Return(ret)
    /\ UNCHANGED <<text, parser, cursor, reads>>

AlternativeResume ==
    /\ Running /\ ret.kind # "none" /\ Class(Top.p) = "Alternative"
    /\ IF ret.kind \in {"NoMatch", "EndOfText"}
       THEN /\ stack' = SetTop([Top EXCEPT !.i = @ + 1])
            /\ ret' = NoRet
            /\ UNCHANGED trace
       ELSE Return(ret)
    /\ UNCHANGED <<text, parser, cursor, reads>>

(***************************************************************************)
(* Apply.recognize                                                         *)
(***************************************************************************)
ApplyIter ==
    /\ Running /\ ret.kind = "none" /\ Class(Top.p) = "Apply"
    /\ Call(Top.p[2][1], Top.cursor)
    /\ UNCHANGED <<text, parser, cursor, reads>>

ApplyResume ==
    /\ Running /\ ret.kind # "none" /\ Class(Top.p) = "Apply"
    /\ IF ret.kind = "ok"
       THEN LET r == apply_fn(Top.p[2][2], ret.val) IN
            IF r.kind = "ok" THEN Return(Ok(r.val, ret.cur)) ELSE Return(r)
       ELSE Return(ret)
    /\ UNCHANGED <<text, parser, cursor, reads>>

(***************************************************************************)
(* Many.recognize: the head of the while loop, and the return of the child *)
(***************************************************************************)
ManyIter ==
    /\ Running /\ ret.kind = "none" /\ Class(Top.p) = "Many"
    /\ Call(Top.p[2], Top.cur)
    /\ UNCHANGED <<text, parser, cursor, reads>>

\* the except clause for EndOfText is missing
ManyResume_noEndOfText ==
    /\ Running /\ ret.kind # "none" /\ Class(Top.p) = "Many"
    /\ IF ret.kind = "ok"
       THEN /\ stack' = SetTop([Top EXCEPT !.results = Append(@, ret.val),
                                           !.cur = ret.cur])
            /\ ret' = NoRet
            /\ UNCHANGED trace
       ELSE IF ret.kind = "NoMatch"
            THEN Return(Ok(List(Top.results), Top.cur))
            ELSE Return(ret)
    /\ UNCHANGED <<text, parser, cursor, reads>>

ManyResume ==
    /\ Running /\ ret.kind # "none" /\ Class(Top.p) = "Many"
    /\ IF ret.kind = "ok"
       THEN /\ stack' = SetTop([Top EXCEPT !.results = Append(@, ret.val),
                                           !.cur = ret.cur])
            /\ ret' = NoRet
            /\ UNCHANGED trace
       ELSE IF ret.kind \in {"NoMatch", "EndOfText"}
            THEN Return(Ok(List(Top.results), Top.cur))
            ELSE Return(ret)
    /\ UNCHANGED <<text, parser, cursor, reads>>

(***************************************************************************)
(* The inputs explored                                                     *)
(***************************************************************************)
Alphabet == {"a", "b", "1"}

Seqs(S, n) == UNION {[1..k -> S] : k \in 0..n}

Texts == Seqs(Alphabet, MaxLen)

Leaves == {Char("a"), Char("b"), Digit, Range("a", "b"), EndParser, LambdaParser}

Mid == {Sequence(<<EndParser, Char("a")>>), Sequence(<<Digit, Char("a")>>),
        Alternative(<<Char("a"), Char("b")>>), Many(Digit), Many1(Digit),
        Optional(Char("a")), Letter, String(<<"a", "b">>)}

Parsers ==
    Leaves
    \cup {Sequence(ps) : ps \in Seqs(Leaves, MaxKids)}
    \cup {Alternative(ps) : ps \in Seqs(Leaves, MaxKids)}
    \cup {Many(p) : p \in Leaves \cup Mid}
    \cup {Many1(p) : p \in Leaves \cup Mid}
    \cup {Optional(p) : p \in Leaves \cup Mid}
    \cup {SepBy1(p, sep) : p \in Leaves, sep \in Leaves}
    \cup {String(s) : s \in Seqs({"a", "b"}, 2)}
    \cup {Sequence(<<p, q>>) : p \in Mid, q \in Leaves}
    \cup {Alternative(<<p, q>>) : p \in Mid, q \in Leaves}
    \cup {Join(p) : p \in Leaves \cup {String(<<"a", "b">>),
                                       Sequence(<<LambdaParser>>)}}
    \cup {Digits, Letters, OneOf(<<"a", "b">>), Join(Many(Digit)),
          Sequence(<<OneOf(<<"a", "b">>), OneOf(<<"a", "b">>)>>)}

(***************************************************************************)
(* What a recognize call comes to.  The call is a function of the          *)
(* recognizer, the text and the cursor: nothing else is read and nothing   *)
(* is assigned.  The while loop of Many has no limit and ends only when    *)
(* the child raises an exception; when the child returns the cursor it was *)
(* given, the next call of the child is the same call with the same        *)
(* result, and the loop, and every call around it, has no end.             *)
(***************************************************************************)
NoEnd == [kind |-> "no end", val |-> None, cur |-> None]

RECURSIVE recognize(_, _, _)
RECURSIVE Sequence_recognize(_, _, _, _)
RECURSIVE Alternative_recognize(_, _, _)
RECURSIVE Many_recognize(_, _, _, _)

Sequence_recognize(parsers, s, c, results) ==
    IF parsers = <<>> THEN Ok(List(results), c)
    ELSE LET r == recognize(Head(parsers), s, c) IN
         IF r.kind = "ok"
         THEN Sequence_recognize(Tail(parsers), s, r.cur, Append(results, r.val))
         ELSE r

Alternative_recognize(parsers, s, c) ==
    IF parsers = <<>> THEN Raise("NoMatch")
    ELSE LET r == recognize(Head(parsers), s, c) IN
         IF r.kind \in ParseError
         THEN Alternative_recognize(Tail(parsers), s, c)
         ELSE r

Apply_recognize(p, fn, s, c) ==
    LET r == recognize(p, s, c) IN
    IF r.kind = "ok"
    THEN LET v == apply_fn(fn, r.val) IN
         IF v.kind = "ok" THEN Ok(v.val, r.cur) ELSE v
    ELSE r

Many_recognize(p, s, c, results) ==
    LET r == recognize(p, s, c) IN
    IF r.kind = "ok"
    THEN IF r.cur = c THEN NoEnd
         ELSE Many_recognize(p, s, r.cur, Append(results, r.val))
    ELSE IF r.kind \in ParseError THEN Ok(List(results), c)
    ELSE r

recognize(p, s, c) ==
    CASE Class(p) = "Char" -> Char_recognize(p[2], s, c)
      [] Class(p) = "Predicate" -> Predicate_recognize(p[2], s, c)
      [] Class(p) = "Range" -> Range_recognize(p[2][1], p[2][2], s, c)
      [] Class(p) = "EndParser" -> EndParser_recognize(s, c)
      [] Class(p) = "LambdaParser" -> LambdaParser_recognize(s, c)
      [] Class(p) = "Sequence" -> Sequence_recognize(p[2], s, c, <<>>)
      [] Class(p) = "Alternative" -> Alternative_recognize(p[2], s, c)
      [] Class(p) = "Apply" -> Apply_recognize(p[2][1], p[2][2], s, c)
      [] Class(p) = "Many" -> Many_recognize(p[2], s, c, <<>>)

Init ==
    /\ text \in Texts
    /\ parser \in Parsers
    /\ cursor \in {IndexCursor(idx) : idx \in 0..Len(text)}
    /\ stack = <<>>
    /\ ret = NoRet
    /\ trace = <<>>
    /\ reads = <<>>
    \* the calls that are followed are those that end
    /\ recognize(parser, text, cursor) # NoEnd

Next ==
    \/ Recognize
    \/ CharStep
    \/ PredicateStep
    \/ RangeStep
    \/ EndParserStep
    \/ LambdaParserStep
    \/ SequenceIter
    \/ SequenceResume
    \/ AlternativeIter
    \/ AlternativeResume
    \/ ApplyIter
    \/ ApplyResume
    \/ ManyIter
    \/ ManyResume

Spec == Init /\ [][Next]_vars

(***************************************************************************)
(* Reading the trace: the calls a finished call made                       *)
(***************************************************************************)
Max(S) == CHOOSE m \in S : \A x \in S : x <= m

\* the entry before which the finished call trace[i] started
SubStart(i) ==
    LET S == {j \in 1..(i - 1) : trace[j].depth <= trace[i].depth}
    IN  IF S = {} THEN 0 ELSE Max(S)

\* the entries of the calls trace[i] made itself, in call order
KidIdx(i) ==
    SelectSeq([j \in 1..Len(trace) |-> j],
              LAMBDA j : /\ SubStart(i) < j
                         /\ j < i
                         /\ trace[j].depth = trace[i].depth + 1)

Kids(i) == [k \in 1..Len(KidIdx(i)) |-> trace[KidIdx(i)[k]]]

Calls(class) == {i \in 1..Len(trace) : Class(trace[i].p) = class}

IsMany1(p) == Class(p) = "Apply" /\ p[2][2] = "cons"
IsSepBy1(p) == Class(p) = "Apply" /\ p[2][2] = "fix_list"

\* a finished call that returned a cursor further on than the one it got
Advances(e) ==
    /\ e.out.kind = "ok"
    /\ IsIndexCursor(e.cursor)
    /\ IsIndexCursor(e.out.cur)
    /\ get_index(e.out.cur) > get_index(e.cursor)

(***************************************************************************)
(* C1 as stated: Many1(p) fails with NoMatch exactly when the first        *)
(* attempt of p, at the cursor Many1 was given, fails with NoMatch or with *)
(* EndOfText.                                                              *)
(***************************************************************************)
C1_Original ==
    \A i \in {j \in 1..Len(trace) : IsMany1(trace[j].p)} :
        LET first == Kids(KidIdx(i)[1])[1]
        IN  (trace[i].out.kind = "NoMatch") <=> (first.out.kind \in ParseError)

(***************************************************************************)
(* C1 as amended: Many1(p) starts with an attempt of p at the cursor it    *)
(* was given, and fails with NoMatch exactly when that attempt fails with  *)
(* NoMatch, and with EndOfText exactly when that attempt fails with        *)
(* EndOfText: the first attempt's error is surfaced unchanged.             *)
(***************************************************************************)
C1_Many1SurfacesFirstError ==
    \A i \in {j \in 1..Len(trace) : IsMany1(trace[j].p)} :
        LET first == Kids(KidIdx(i)[1])[1]
        IN  /\ first.p = trace[i].p[2][1][2][1]
            /\ first.cursor = trace[i].cursor
            /\ (trace[i].out.kind = "NoMatch") <=> (first.out.kind = "NoMatch")
            /\ (trace[i].out.kind = "EndOfText") <=> (first.out.kind = "EndOfText")

\* Many1 at the end of the text: the first attempt and Many1 raise EndOfText
C1_Witness ==
    /\ Done
    /\ IsMany1(parser)
    /\ get_index(cursor) = Len(text)
    /\ ret.kind = "EndOfText"
    /\ Kids(KidIdx(Len(trace))[1])[1].out.kind = "EndOfText"

(***************************************************************************)
(* C2 as stated: SepBy1(p, sep) fails when the first p fails, and when it  *)
(* succeeds its value is the list of the results of p alone: the first p   *)
(* and the p of every matched (sep, p) pair, in order, no separator.       *)
(***************************************************************************)
C2_SepBy1ResultsOfP ==
    \A i \in {j \in 1..Len(trace) : IsSepBy1(trace[j].p)} :
        LET seq   == KidIdx(i)[1]
            first == Kids(seq)[1]
            many  == KidIdx(seq)[2]
            pairs == SelectSeq(KidIdx(many), LAMBDA j : trace[j].out.kind = "ok")
        IN  /\ first.out.kind # "ok" => trace[i].out.kind # "ok"
            /\ trace[i].out.kind = "ok" =>
                 trace[i].out.val =
                     List(<<first.out.val>>
                          \o [k \in 1..Len(pairs) |-> Kids(pairs[k])[2].out.val])

(***************************************************************************)
(* C3 as stated: a call of Many(p) never ends in an exception, and returns *)
(* the empty list when the first attempt of p fails.                       *)
(***************************************************************************)
C3_ManyNeverFails ==
    \A i \in Calls("Many") :
        /\ trace[i].out.kind = "ok"
        /\ Kids(i)[1].out.kind # "ok" => trace[i].out.val = List(<<>>)

(***************************************************************************)
(* C4: Alternative calls its children in list order, each at the cursor    *)
(* Alternative itself was given, stops at the first child that succeeds    *)
(* and returns that child's value and cursor.                              *)
(***************************************************************************)
C4_AlternativeOrderedChoice ==
    \A i \in Calls("Alternative") :
        LET e == trace[i]
            k == Kids(i)
        IN  /\ Len(k) <= Len(e.p[2])
            /\ \A j \in 1..Len(k) : /\ k[j].p = e.p[2][j]
                                    /\ k[j].cursor = e.cursor
            /\ \A j \in 1..(Len(k) - 1) : k[j].out.kind # "ok"
            /\ e.out.kind = "ok" => Len(k) >= 1
            /\ (Len(k) >= 1 /\ k[Len(k)].out.kind = "ok") => e.out = k[Len(k)].out
            /\ e.out.kind = "ok" => e.out = k[Len(k)].out

\* the first child reads a character, moves on and fails; the second child
\* is started at the cursor of the Alternative and succeeds
C4_Witness ==
    \E i \in Calls("Alternative") :
        /\ Len(Kids(i)) = 2
        /\ Kids(i)[1].out.kind \in ParseError
        /\ \E g \in 1..Len(Kids(KidIdx(i)[1])) : Advances(Kids(KidIdx(i)[1])[g])
        /\ Kids(i)[2].out.kind = "ok"
        /\ Kids(i)[2].cursor = trace[i].cursor
        /\ trace[i].out = Kids(i)[2].out

(***************************************************************************)
(* C5: Alternative never raises EndOfText, and raises NoMatch exactly when *)
(* it has tried every child and each one raised NoMatch or EndOfText; so   *)
(* also when all of them raised EndOfText and when there is no child.      *)
(***************************************************************************)
C5_AlternativeFailsNoMatch ==
    \A i \in Calls("Alternative") :
        LET e == trace[i]
            k == Kids(i)
        IN  /\ e.out.kind # "EndOfText"
            /\ (e.out.kind = "NoMatch") <=>
                   /\ Len(k) = Len(e.p[2])
                   /\ \A j \in 1..Len(k) : k[j].out.kind \in ParseError
            /\ (e.out.kind \in ParseError) =>
                   \A j \in 1..Len(k) : k[j].cursor = e.cursor

\* two children, both raise EndOfText, Alternative raises NoMatch
C5_Witness ==
    \E i \in Calls("Alternative") :
        /\ Len(Kids(i)) = 2
        /\ \A j \in 1..2 : Kids(i)[j].out.kind = "EndOfText"
        /\ trace[i].out.kind = "NoMatch"

(***************************************************************************)
(* C6: Sequence calls its children in order, the first at the cursor it    *)
(* was given and each next one at the cursor the previous one returned;    *)
(* when all succeed it returns the list of their values and the last       *)
(* cursor (its own cursor and the empty list when it has no child); at the *)
(* first child that fails it stops, raising what that child raised.        *)
(***************************************************************************)
C6_SequenceThreading ==
    \A i \in Calls("Sequence") :
        LET e == trace[i]
            k == Kids(i)
            n == Len(e.p[2])
        IN  /\ Len(k) <= n
            /\ \A j \in 1..Len(k) :
                  /\ k[j].p = e.p[2][j]
                  /\ k[j].cursor = IF j = 1 THEN e.cursor ELSE k[j - 1].out.cur
            /\ \A j \in 1..(Len(k) - 1) : k[j].out.kind = "ok"
            /\ IF Len(k) = n /\ (n = 0 \/ k[n].out.kind = "ok")
               THEN e.out = Ok(List([j \in 1..n |-> k[j].out.val]),
                               IF n = 0 THEN e.cursor ELSE k[n].out.cur)
               ELSE /\ Len(k) >= 1
                    /\ e.out.kind # "ok"
                    /\ e.out = k[Len(k)].out

\* a Sequence whose second child, started where the first one stopped,
\* raises EndOfText, inside a Sequence of two that stops after its first child
C6_Witness ==
    \E i \in Calls("Sequence") : \E o \in Calls("Sequence") :
        /\ Len(Kids(i)) = 2
        /\ Advances(Kids(i)[1])
        /\ Kids(i)[2].cursor = Kids(i)[1].out.cur
        /\ Kids(i)[2].out.kind = "EndOfText"
        /\ trace[i].out.kind = "EndOfText"
        /\ Len(trace[o].p[2]) = 2
        /\ KidIdx(o) = <<i>>
        /\ trace[o].out.kind = "EndOfText"

(***************************************************************************)
(* C7 as stated: a recognize call on a text from its start cursor, in      *)
(* which every function of an Apply was defined on the value it was given, *)
(* ends by returning a value and a cursor or by raising NoMatch or         *)
(* EndOfText.                                                              *)
(***************************************************************************)
C7_ClosedFailureSet ==
    (/\ Done
     /\ cursor = get_start_cursor
     /\ \A i \in 1..Len(trace) : trace[i].out.kind # "TypeError")
    => ret.kind \in {"ok"} \cup ParseError

\* every read made so far is what the text holds at its cursor, and two reads
\* at one cursor have the same outcome, whatever was read or recognized between
C8_ReadsAgree ==
    \A r \in 1..Len(reads) :
        LET c == reads[r].cursor
            o == reads[r].out
        IN  IsIndexCursor(c) =>
              /\ IF get_index(c) >= Len(text)
                 THEN o.kind = "EndOfText"
                 ELSE o = Ok(Str(<<text[get_index(c) + 1]>>),
                             IndexCursor(get_index(c) + 1))
              /\ \A q \in 1..Len(reads) : reads[q].cursor = c => reads[q].out = o

C9_ManyResultAndCursor ==
    \A i \in Calls("Many") :
        LET e == trace[i]
            k == Kids(i)
            n == Len(k)
        IN  /\ n >= 1
            /\ \A j \in 1..n :
                  /\ k[j].p = e.p[2]
                  /\ k[j].cursor = IF j = 1 THEN e.cursor ELSE k[j - 1].out.cur
            /\ \A j \in 1..(n - 1) : k[j].out.kind = "ok"
            /\ k[n].out.kind # "ok"
            /\ k[n].out.kind \in ParseError =>
                 e.out = Ok(List([j \in 1..(n - 1) |-> k[j].out.val]),
                            IF n = 1 THEN e.cursor ELSE k[n - 1].out.cur)
            /\ e.out.kind = "ok" => k[n].out.kind \in ParseError

\* two digits and then a character that is no digit: two values, cursor 2
C9_Witness ==
    /\ Done
    /\ parser = Many(Digit)
    /\ cursor = IndexCursor(0)
    /\ Len(Kids(Len(trace))) = 3
    /\ Kids(Len(trace))[3].out.kind = "NoMatch"
    /\ ret = Ok(List(<<Str(<<"1">>), Str(<<"1">>)>>), IndexCursor(2))

OkCount(k) == Cardinality({j \in 1..Len(k) : k[j].out.kind = "ok"})

Progress(k) == \A j \in 1..Len(k) : k[j].out.kind = "ok" => Advances(k[j])

(***************************************************************************)
(* C10 as stated: a call of Many(p), outermost or nested, in which every   *)
(* successful call of p returned a cursor further on than the one it was   *)
(* given, returns: it ends with a value and a cursor at most len(s), after *)
(* at most len(s) - start successful calls of p.                           *)
(***************************************************************************)
C10_ManyReturnsUnderProgress ==
    \A i \in Calls("Many") :
        (IsIndexCursor(trace[i].cursor) /\ Progress(Kids(i))) =>
            /\ trace[i].out.kind = "ok"
            /\ IsIndexCursor(trace[i].out.cur)
            /\ get_index(trace[i].out.cur) <= Len(text)
            /\ OkCount(Kids(i)) <= Len(text) - get_index(trace[i].cursor)

====
